---- MODULE Spec2Model ----
(***************************************************************************)
(* sizemeup: the build of the genome-size table (sizemeup-build), the two  *)
(* taxonomy resolve operations it calls, and the point lookup (sizemeup).  *)
(*                                                                         *)
(* Python strings are sequences of one-character strings, so that          *)
(* str.lower, str.isdigit, the "_" / digit tests and ",".join are computed *)
(* rather than assumed.  Python dicts are sequences of <<key, value>>      *)
(* pairs in insertion order; a dict row is a TLA+ record whose DOMAIN is   *)
(* the set of keys it has.                                                 *)
(***************************************************************************)
EXTENDS Integers, Sequences, FiniteSets, TLC

\* ------------------------------------------------------------- bounds ----
\* Largest --chunk-size tried (the option's values are 1..MaxChunkSize).
MaxChunkSize == 2
\* Number of samples in the assembly-stats manifest.
MaxSamples == 3

\* ------------------------------------------------------------ strings ----
\* "Azorhizobium caulinodans"
AzorhizobiumCaulinodans ==
    <<"A", "z", "o", "r", "h", "i", "z", "o", "b", "i", "u", "m", " ", "c", "a", "u", "l", "i", "n", "o", "d", "a", "n", "s">>
\* "Buchnera aphidicola"
BuchneraAphidicola ==
    <<"B", "u", "c", "h", "n", "e", "r", "a", " ", "a", "p", "h", "i", "d", "i", "c", "o", "l", "a">>
\* "Escherichia coli"
EscherichiaColi ==
    <<"E", "s", "c", "h", "e", "r", "i", "c", "h", "i", "a", " ", "c", "o", "l", "i">>
\* "escherichia coli"
EscherichiaColiLower ==
    <<"e", "s", "c", "h", "e", "r", "i", "c", "h", "i", "a", " ", "c", "o", "l", "i">>
\* "E. coli"
EColiAlias ==
    <<"E", ".", " ", "c", "o", "l", "i">>
\* "E_coli_123"
EColi123 ==
    <<"E", "_", "c", "o", "l", "i", "_", "1", "2", "3">>
\* "strain_X"
StrainX ==
    <<"s", "t", "r", "a", "i", "n", "_", "X">>
\* "7"
Taxid7 ==
    <<"7">>
\* "9"
Taxid9 ==
    <<"9">>
\* "562"
Taxid562 ==
    <<"5", "6", "2">>
\* "1280"
Taxid1280 ==
    <<"1", "2", "8", "0">>

\* "bacteria"
Cat_bacteria ==
    <<"b", "a", "c", "t", "e", "r", "i", "a">>
\* "archaea"
Cat_archaea ==
    <<"a", "r", "c", "h", "a", "e", "a">>
\* "eukaryota"
Cat_eukaryota ==
    <<"e", "u", "k", "a", "r", "y", "o", "t", "a">>
\* "fungi"
Cat_fungi ==
    <<"f", "u", "n", "g", "i">>
\* "virus"
Cat_virus ==
    <<"v", "i", "r", "u", "s">>
\* "unclassified"
Cat_unclassified ==
    <<"u", "n", "c", "l", "a", "s", "s", "i", "f", "i", "e", "d">>
\* "other"
Cat_other ==
    <<"o", "t", "h", "e", "r">>
\* "unknown"
Cat_unknown ==
    <<"u", "n", "k", "n", "o", "w", "n">>

Digits ==
    {"0", "1", "2", "3", "4", "5", "6", "7", "8", "9"}

UpperCase ==
    <<"A", "B", "C", "D", "E", "F", "G", "H", "I", "J", "K", "L", "M",
      "N", "O", "P", "Q", "R", "S", "T", "U", "V", "W", "X", "Y", "Z">>

LowerCase ==
    <<"a", "b", "c", "d", "e", "f", "g", "h", "i", "j", "k", "l", "m",
      "n", "o", "p", "q", "r", "s", "t", "u", "v", "w", "x", "y", "z">>

\* str.lower() on one character.
LowerChar(c) ==
    IF \E i \in 1..26 : UpperCase[i] = c
    THEN LowerCase[CHOOSE i \in 1..26 : UpperCase[i] = c]
    ELSE c

\* str.lower()
Lower(s) ==
    [i \in 1..Len(s) |-> LowerChar(s[i])]

\* str.isdigit(): non-empty and every character a digit.
IsDigit(s) ==
    Len(s) > 0 /\ \A i \in 1..Len(s) : s[i] \in Digits

\* any(i.isdigit() for i in name)
AnyDigit(s) ==
    \E i \in 1..Len(s) : s[i] \in Digits

\* "_" in name
HasUnderscore(s) ==
    \E i \in 1..Len(s) : s[i] = "_"

\* sep.join(parts) for strings as character sequences.
RECURSIVE Join(_, _)
Join(parts, sep) ==
    IF parts = <<>> THEN <<>>
    ELSE IF Len(parts) = 1 THEN parts[1]
    ELSE parts[1] \o sep \o Join(Tail(parts), sep)

\* -------------------------------------------------------------- dicts ----
\* dict.keys(), in insertion order.
Keys(d) ==
    [i \in 1..Len(d) |-> d[i][1]]

\* key in d
Has(d, k) ==
    \E i \in 1..Len(d) : d[i][1] = k

\* d[key]  (only used where the key is present; a missing key is a KeyError
\* that the calling action tests for with Has)
Get(d, k) ==
    d[CHOOSE i \in 1..Len(d) : d[i][1] = k][2]

\* d[key] = value: an existing key keeps its position, a new key is appended.
Put(d, k, v) ==
    IF Has(d, k)
    THEN [i \in 1..Len(d) |-> IF d[i][1] = k THEN <<k, v>> ELSE d[i]]
    ELSE Append(d, <<k, v>>)

\* The elements of a sequence.
Range(s) ==
    {s[i] : i \in 1..Len(s)}

RECURSIVE SumSeq(_)
SumSeq(s) ==
    IF s = <<>> THEN 0 ELSE Head(s) + SumSeq(Tail(s))

\* str(n) for a non-negative integer.
DigitChar(n) ==
    <<"0", "1", "2", "3", "4", "5", "6", "7", "8", "9">>[n + 1]

RECURSIVE Str(_)
Str(n) ==
    IF n < 10 THEN <<DigitChar(n)>>
    ELSE Append(Str(n \div 10), DigitChar(n % 10))

\* int(s) for a string of decimal digits.
DigitValue(c) ==
    CHOOSE n \in 0..9 : DigitChar(n) = c

RECURSIVE ToInt(_)
ToInt(s) ==
    IF Len(s) = 1 THEN DigitValue(s[1])
    ELSE 10 * ToInt(SubSeq(s, 1, Len(s) - 1)) + DigitValue(s[Len(s)])

\* ------------------------------------------------- taxonomy resolver ----
\* NCBI_CATEGORY_IDS, a dict in source order.
NCBI_CATEGORY_IDS ==
    << <<Str(2), Cat_bacteria>>,
       <<Str(2157), Cat_archaea>>,
       <<Str(2759), Cat_eukaryota>>,
       <<Str(4751), Cat_fungi>>,
       <<Str(10239), Cat_virus>>,
       <<Str(12908), Cat_unclassified>>,
       <<Str(28384), Cat_other>> >>

\* The matches list of taxid2name: the categories, in the order of
\* NCBI_CATEGORY_IDS, whose identifier occurs in the lineage.
RECURSIVE Matches(_, _)
Matches(ids, lineage) ==
    IF ids = <<>> THEN <<>>
    ELSE (IF ToInt(Head(ids)) \in Range(lineage)
          THEN <<Get(NCBI_CATEGORY_IDS, Head(ids))>>
          ELSE <<>>) \o Matches(Tail(ids), lineage)

\* The category taxid2name leaves in tax_names[tax_id]: "unknown" is
\* assigned first and then overwritten by the joined matches.
Category(lineage) ==
    Join(Matches(Keys(NCBI_CATEGORY_IDS), lineage), <<",">>)

\* The entry taxid2name stores for one response row.
NameEntry(row) ==
    [name |-> row.taxonomy.organism_name,
     category |-> Category(row.taxonomy.lineage)]

\* Batched keeping only the full batches (a trailing short one is lost).
RECURSIVE BatchedFullOnly(_, _)
BatchedFullOnly(items, n) ==
    IF Len(items) < n THEN <<>>
    ELSE <<SubSeq(items, 1, n)>> \o BatchedFullOnly(SubSeq(items, n + 1, Len(items)), n)

\* itertools.batched(items, n), n >= 1.
RECURSIVE Batched(_, _)
Batched(items, n) ==
    IF items = <<>> THEN <<>>
    ELSE IF Len(items) <= n THEN <<items>>
    ELSE <<SubSeq(items, 1, n)>> \o Batched(SubSeq(items, n + 1, Len(items)), n)

\* The taxonomy service's content: the species it knows.  Taxon 9 carries a
\* lineage with both 2157 and 2 (in that order), taxon 7 one with none of
\* the seven category identifiers.
Taxonomy ==
    { [tax_id |-> 7, organism_name |-> AzorhizobiumCaulinodans,
       lineage |-> <<1, 131567>>],
      [tax_id |-> 9, organism_name |-> BuchneraAphidicola,
       lineage |-> <<1, 131567, 2157, 2>>],
      [tax_id |-> 562, organism_name |-> EscherichiaColi,
       lineage |-> <<1, 131567, 2, 1224, 1236, 91347, 543, 561>>] }

\* The taxa the service matches to one queried identifier: a tax_id by
\* number, a name by organism name.
TaxaFor(q) ==
    {t \in Taxonomy : IF IsDigit(q) THEN t.tax_id = ToInt(q) ELSE t.organism_name = q}

\* What the service may answer for one identifier: a node with a taxonomy
\* field, a node without one (errors only), or no node at all.
NodeKinds(q) ==
    (IF TaxaFor(q) = {} THEN {} ELSE {"taxonomy"}) \cup {"errors", "omitted"}

\* The taxonomy_nodes of a response to chunk, identifier i answered as kind[i].
RECURSIVE Nodes(_, _, _)
Nodes(chunk, kind, i) ==
    IF i > Len(chunk) THEN <<>>
    ELSE (CASE kind[i] = "taxonomy" ->
                 <<[query |-> chunk[i],
                    taxonomy |-> CHOOSE t \in TaxaFor(chunk[i]) : TRUE]>>
            [] kind[i] = "errors" -> <<[query |-> chunk[i], errors |-> TRUE]>>
            [] OTHER -> <<>>) \o Nodes(chunk, kind, i + 1)

\* Every taxonomy_nodes list the service may return for a chunk.
Responses(chunk) ==
    { Nodes(chunk, kind, 1) :
        kind \in { k \in [1..Len(chunk) -> {"taxonomy", "errors", "omitted"}] :
                     \A i \in 1..Len(chunk) : k[i] \in NodeKinds(chunk[i]) } }

\* taxid2name's loop over data['taxonomy_nodes'], up to the first row
\* without a taxonomy field (row["taxonomy"] raises KeyError there).
RECURSIVE NameRows(_, _)
NameRows(rows, acc) ==
    IF rows = <<>> \/ "taxonomy" \notin DOMAIN Head(rows) THEN acc
    ELSE NameRows(Tail(rows),
                  Put(acc, Str(Head(rows).taxonomy.tax_id), NameEntry(Head(rows))))

\* species2taxid's loop over data['taxonomy_nodes']: rows without a
\* taxonomy field are skipped.
RECURSIVE TaxidRows(_, _)
TaxidRows(rows, acc) ==
    IF rows = <<>> THEN acc
    ELSE TaxidRows(Tail(rows),
                   IF "taxonomy" \in DOMAIN Head(rows)
                   THEN Put(acc, Head(rows).taxonomy.organism_name,
                            Str(Head(rows).taxonomy.tax_id))
                   ELSE acc)

\* ------------------------------------------------------ build inputs ----
\* The values of --min-genomes tried.
MinGenomesChoices ==
    {1, 2}

\* Rows of NCBI's species_genome_size.txt.gz (six tab-separated columns).
NcbiRows ==
    << <<Taxid7, Str(4000000), Str(7000000), Str(5636513), Str(12), <<"automatic">> >>,
       <<Taxid9, Str(400000), Str(700000), Str(559368), Str(80), <<"automatic">> >>,
       <<Taxid562, Str(4000000), Str(6000000), Str(5000000), Str(900), <<"reference-genome">> >> >>

\* The species_genome_size.txt.gz files tried: every sub-list of NcbiRows.
RECURSIVE SubLists(_)
SubLists(rows) ==
    IF rows = <<>> THEN {<<>>}
    ELSE LET rest == SubLists(Tail(rows))
         IN  rest \cup {<<Head(rows)>> \o r : r \in rest}

NcbiFiles ==
    SubLists(NcbiRows)

\* Lines of a --user-sizes file (name, taxid, category, size, method).
UserRows ==
    { <<AzorhizobiumCaulinodans, Taxid7, Cat_bacteria, Str(6000000), <<"manually-set">> >>,
      <<EColiAlias, Taxid562, Cat_bacteria, Str(5100000), <<"manually-set">> >>,
      <<EscherichiaColi, Taxid562, Cat_bacteria, Str(5100000), <<"manually-set">> >>,
      <<StrainX, Taxid1280, Cat_bacteria, Str(2800000), <<"manually-set">> >> }

\* A comment line of a --user-sizes file.
UserComment ==
    <<<<"#", "n", "a", "m", "e">>>>

\* The --user-sizes files tried: empty, one row, and a comment plus one row.
UserFiles ==
    {<<>>} \cup {<<r>> : r \in UserRows}
           \cup {<<UserComment, r>> : r \in {u \in UserRows : u[2] = Taxid7}}

\* The species names of the assembly-stats manifest.
AtbNames ==
    {EscherichiaColi, BuchneraAphidicola, StrainX, EColi123}

\* total_length of the samples, in sample order (repeated cyclically).
AssemblyLengths ==
    <<100, 101, 300, 200>>

\* The samples of the manifest.
Samples ==
    1..MaxSamples

\* ------------------------------------------------------- build steps ----
\* line.startswith("#")
IsComment(line) ==
    Len(line) > 0 /\ Len(line[1]) > 0 /\ line[1][1] = "#"

\* The loop that reads the --user-sizes file into user_genome_sizes.
RECURSIVE ReadUserLines(_, _)
ReadUserLines(lines, acc) ==
    IF lines = <<>> THEN acc
    ELSE LET vals == Head(lines)
         IN  ReadUserLines(Tail(lines),
               IF IsComment(vals) THEN acc
               ELSE Put(acc, vals[2],
                        [name |-> vals[1], taxid |-> vals[2], category |-> vals[3],
                         expected_ungapped_length |-> vals[4],
                         method_determined |-> vals[5], source |-> "user"]))

\* The loop of get_genome_sizes that reads the NCBI table into genome_sizes.
RECURSIVE ReadNcbiLines(_, _)
ReadNcbiLines(lines, acc) ==
    IF lines = <<>> THEN acc
    ELSE LET vals == Head(lines)
         IN  ReadNcbiLines(Tail(lines),
               IF IsComment(vals) THEN acc
               ELSE Put(acc, vals[1],
                        [species_taxid |-> vals[1], min_ungapped_length |-> vals[2],
                         max_ungapped_length |-> vals[3],
                         expected_ungapped_length |-> vals[4],
                         number_of_genomes |-> vals[5],
                         method_determined |-> vals[6], source |-> "ncbi"]))

\* The loop of get_genome_sizes that copies name and category of every
\* resolved tax_id into its genome_sizes row.
RECURSIVE MergeNames(_, _)
MergeNames(names, sizes) ==
    IF names = <<>> THEN sizes
    ELSE LET taxid == Head(names)[1]
             vals == Head(names)[2]
         IN  MergeNames(Tail(names),
               Put(sizes, taxid,
                   ("name" :> vals.name) @@ ("category" :> vals.category)
                     @@ Get(sizes, taxid)))

\* MergeUser without the membership test: a user row always replaces.
RECURSIVE MergeUserOverwrite(_, _)
MergeUserOverwrite(user, sizes) ==
    IF user = <<>> THEN sizes
    ELSE MergeUserOverwrite(Tail(user), Put(sizes, Head(user)[1], Head(user)[2]))

\* The merge loop: a user row is inserted only when its taxid is not a key
\* of genome_sizes.
RECURSIVE MergeUser(_, _)
MergeUser(user, sizes) ==
    IF user = <<>> THEN sizes
    ELSE MergeUser(Tail(user),
                   IF ~Has(sizes, Head(user)[1])
                   THEN Put(sizes, Head(user)[1], Head(user)[2])
                   ELSE sizes)

\* The loop that builds species_list (name -> taxid) from genome_sizes.
RECURSIVE SpeciesList(_, _)
SpeciesList(sizes, acc) ==
    IF sizes = <<>> THEN acc
    ELSE SpeciesList(Tail(sizes), Put(acc, Head(sizes)[2].name, Head(sizes)[1]))

\* species of parse_atb_file_list: the samples grouped by species name, in
\* manifest order; manifest[i] is the species of sample i.
RECURSIVE GroupSamples(_, _, _)
GroupSamples(manifest, i, acc) ==
    IF i > Len(manifest) THEN acc
    ELSE GroupSamples(manifest, i + 1,
           Put(acc, manifest[i],
               IF Has(acc, manifest[i]) THEN Append(Get(acc, manifest[i]), i)
               ELSE <<i>>))

\* parse_assembly_stats: sample -> row, for the samples 1..n.
AssemblyStats(n) ==
    [i \in 1..n |->
       <<i, [sample |-> i,
             total_length |-> Str(AssemblyLengths[((i - 1) % Len(AssemblyLengths)) + 1])]>>]

\* The strain-name test: the name passes unless it has both an underscore
\* and a digit.
PassesNameFilter(name) ==
    ~HasUnderscore(name) \/ ~AnyDigit(name)

\* EnoughGenomes with a strict comparison.
EnoughGenomesStrict(samples, min) ==
    Len(samples) > min

\* len(samples) >= min_genomes
EnoughGenomes(samples, min) ==
    Len(samples) >= min

\* FilterSpecies without the test against species_list.
RECURSIVE FilterSpeciesNoExclusion(_, _, _, _)
FilterSpeciesNoExclusion(sp, excluded, min, acc) ==
    IF sp = <<>> THEN acc
    ELSE LET name == Head(sp)[1]
             samples == Head(sp)[2]
         IN  FilterSpeciesNoExclusion(Tail(sp), excluded, min,
               IF PassesNameFilter(name) /\ Len(samples) >= min
               THEN Put(acc, name, samples)
               ELSE acc)

\* The loop that selects atb_species from species.
RECURSIVE FilterSpecies(_, _, _, _)
FilterSpecies(sp, excluded, min, acc) ==
    IF sp = <<>> THEN acc
    ELSE LET name == Head(sp)[1]
             samples == Head(sp)[2]
         IN  FilterSpecies(Tail(sp), excluded, min,
               IF ~Has(excluded, name) /\ PassesNameFilter(name)
                  /\ EnoughGenomes(samples, min)
               THEN Put(acc, name, samples)
               ELSE acc)

\* IntMean rounding up instead of down.
IntMeanCeil(values) ==
    (SumSeq(values) + Len(values) - 1) \div Len(values)

\* int(mean(values)) for non-negative integers.
IntMean(values) ==
    SumSeq(values) \div Len(values)

\* The row the build stores for a resolved assembly-stats species.
AtbRow(name, taxid, samples, stats) ==
    [name |-> name, taxid |-> taxid, category |-> Cat_bacteria,
     expected_ungapped_length |->
        IntMean([i \in 1..Len(samples) |-> ToInt(Get(stats, samples[i]).total_length)]),
     source |-> "atb",
     method_determined |->
        <<"Average assembly size of ", Len(samples), " AllTheBacteria samples">>]

\* The loop that adds the resolved assembly-stats species to genome_sizes.
RECURSIVE AddAtb(_, _, _, _)
AddAtb(cands, taxids, stats, sizes) ==
    IF cands = <<>> THEN sizes
    ELSE LET name == Head(cands)[1]
             samples == Head(cands)[2]
         IN  AddAtb(Tail(cands), taxids, stats,
               IF Has(taxids, name)
               THEN Put(sizes, Get(taxids, name),
                        AtbRow(name, Get(taxids, name), samples, stats))
               ELSE sizes)

\* The header line of sizemeup-sizes.txt.
SizesHeader ==
    <<<<"n", "a", "m", "e">>, <<"t", "a", "x", "_", "i", "d">>,
      <<"c", "a", "t", "e", "g", "o", "r", "y">>, <<"s", "i", "z", "e">>,
      <<"s", "o", "u", "r", "c", "e">>, <<"m", "e", "t", "h", "o", "d">>>>

\* The version comment line of sizemeup-sizes.txt.
VersionLine ==
    <<<<"#", " ", "s", "i", "z", "e", "m", "e", "u", "p", "-", "b", "u", "i", "l", "d">>>>

\* One data line of sizemeup-sizes.txt; the f-string prints the integer
\* size of an atb row in decimal.
SizesLine(taxid, genome) ==
    <<genome.name, taxid, genome.category,
      IF genome.source = "atb" THEN Str(genome.expected_ungapped_length)
      ELSE genome.expected_ungapped_length,
      <<genome.source>>, genome.method_determined>>

\* ------------------------------------------------------------ lookup ----
\* The largest number of data rows of a sizes table tried.
MaxTableRows == 3

\* "# sizemeup-build 2024.09.29"
SizesVersionLine ==
    <<<<"#", " ", "s", "i", "z", "e", "m", "e", "u", "p", "-", "b", "u", "i", "l", "d",
        " ", "2", "0", "2", "4", ".", "0", "9", ".", "2", "9">>>>

\* The header of a table without the category column, as in the example
\* of parse_sizes_file's docstring.
BasicHeader ==
    <<SizesHeader[1], SizesHeader[2], SizesHeader[4], SizesHeader[5], SizesHeader[6]>>

\* Data rows of a six-column table; the third is named like the second
\* once lowercased and has another tax_id.
TableRows6 ==
    << <<AzorhizobiumCaulinodans, Taxid7, Cat_bacteria, Str(5636513), <<"ncbi">>, <<"automatic">> >>,
       <<EscherichiaColi, Taxid562, Cat_bacteria, Str(5000000), <<"ncbi">>, <<"automatic">> >>,
       <<EscherichiaColiLower, Taxid1280, Cat_bacteria, Str(2800000), <<"user">>, <<"manually-set">> >>,
       <<BuchneraAphidicola, Taxid9, <<>>, Str(559368), <<"ncbi">>, <<"automatic">> >> >>

Reverse(seq) ==
    [i \in 1..Len(seq) |-> seq[Len(seq) + 1 - i]]

\* The row without its category column.
BasicRow(row) ==
    <<row[1], row[2], row[4], row[5], row[6]>>

\* The lists of data rows tried: sub-lists of TableRows6, in either order.
RowLists ==
    {r \in SubLists(TableRows6) \cup SubLists(Reverse(TableRows6)) :
       Len(r) <= MaxTableRows}

\* The sizes files tried, in the six-column and the five-column format.
SizesFiles ==
    {<<SizesVersionLine, SizesHeader>> \o r : r \in RowLists}
      \cup {<<SizesVersionLine, BasicHeader>> \o [i \in 1..Len(r) |-> BasicRow(r[i])] :
              r \in RowLists}

\* "sample.bracken.classification.txt"
ClassificationPath ==
    <<"s", ".", "t", "x", "t">>

\* The contents tried for the classification file: a header and one line
\* with a species, a header and a line with one column, a header only.
ClassificationFiles ==
    { << <<SizesHeader[1], <<"c", "l", "a", "s", "s">> >>, <<<<"s">>, EscherichiaColi>> >>,
      << <<SizesHeader[1], <<"c", "l", "a", "s", "s">> >>, <<<<"s">>, StrainX>> >>,
      << <<SizesHeader[1], <<"c", "l", "a", "s", "s">> >>, <<<<"s">>>> >>,
      << <<SizesHeader[1], <<"c", "l", "a", "s", "s">> >> >> }

\* The local files tried: none, or the classification file.
FileSystems ==
    {<<>>} \cup {<<<<ClassificationPath, c>>>> : c \in ClassificationFiles}

\* The values of --query tried: tax_ids, names, and the path.
Queries ==
    {Taxid7, Taxid562, Taxid1280, Taxid9, <<"4", "2">>,
     EscherichiaColi, EscherichiaColiLower, AzorhizobiumCaulinodans, StrainX,
     ClassificationPath}

\* final_output as sizemeup initialises it.
UnknownOutput ==
    [name |-> <<"UNKNOWN_SPECIES">>, tax_id |-> <<"UNKNOWN_TAXID">>,
     category |-> <<"UNKNOWN_CATEGORY">>, size |-> <<"0">>,
     source |-> <<"UNKNOWN_SOURCE">>, method |-> <<"UNKNOWN_METHOD">>]

\* s.startswith(prefix)
StartsWith(s, prefix) ==
    Len(s) >= Len(prefix) /\ SubSeq(s, 1, Len(prefix)) = prefix

\* s.split(" ")[-1]
RECURSIVE LastToken(_)
LastToken(s) ==
    IF \E i \in 1..Len(s) : s[i] = " "
    THEN LastToken(SubSeq(s, (CHOOSE i \in 1..Len(s) : s[i] = " ") + 1, Len(s)))
    ELSE s

\* dict(zip(col_names, vals))
Zip(col_names, vals) ==
    [i \in 1..(IF Len(col_names) <= Len(vals) THEN Len(col_names) ELSE Len(vals)) |->
       <<col_names[i], vals[i]>>]

\* parse_sizes_file's loop; col_names is <<>> for None.  A data line before
\* the header raises TypeError, a row without a name or tax_id KeyError.
RECURSIVE ParseLines(_, _)
ParseLines(lines, acc) ==
    IF lines = <<>> \/ acc.raised # "" THEN acc
    ELSE LET line == Head(lines)
         IN  ParseLines(Tail(lines),
               IF StartsWith(line[1], <<"#">>)
               THEN [acc EXCEPT !.version = LastToken(line[1])]
               ELSE IF StartsWith(line[1], SizesHeader[1])
               THEN [acc EXCEPT !.col_names = line]
               ELSE IF acc.col_names = <<>>
               THEN [acc EXCEPT !.raised = "TypeError"]
               ELSE LET row == Zip(acc.col_names, line)
                    IN  IF ~Has(row, SizesHeader[1]) \/ ~Has(row, SizesHeader[2])
                        THEN [acc EXCEPT !.raised = "KeyError"]
                        ELSE [acc EXCEPT
                                !.genome_sizes =
                                   Put(@, Lower(Get(row, SizesHeader[1])), row),
                                !.taxid2name =
                                   Put(@, Get(row, SizesHeader[2]), Get(row, SizesHeader[1]))])

parse_sizes_file(lines) ==
    ParseLines(lines, [genome_sizes |-> <<>>, taxid2name |-> <<>>, version |-> <<>>,
                       col_names |-> <<>>, raised |-> ""])

\* The second line of the classification file, as its tab-separated
\* columns; a missing line reads as one empty column.
SecondLine(content) ==
    IF Len(content) >= 2 THEN content[2] ELSE <<<<>>>>

\* LcSpecies with the tax_id branch not lowercasing the name.
LcSpeciesNoLower(q, taxid2name, fs) ==
    IF IsDigit(q)
    THEN (IF Has(taxid2name, q) THEN <<Get(taxid2name, q)>> ELSE <<>>)
    ELSE IF Has(fs, q)
    THEN <<Lower(SecondLine(Get(fs, q))[2])>>
    ELSE <<Lower(q)>>

\* lc_species: <<>> for None, else a one-element sequence.  A numeric query
\* goes through the tax_id index, a query that is a local file is read, any
\* other query is the name.
LcSpecies(q, taxid2name, fs) ==
    IF IsDigit(q)
    THEN (IF Has(taxid2name, q) THEN <<Lower(Get(taxid2name, q))>> ELSE <<>>)
    ELSE IF Has(fs, q)
    THEN <<Lower(SecondLine(Get(fs, q))[2])>>
    ELSE <<Lower(q)>>

\* The columns of the result file.
ResultCols ==
    SizesHeader

\* ResultLines writing the header only.
ResultHeaderOnly(output) ==
    <<ResultCols>>

\* The two lines written to {prefix}-sizemeup.txt.
ResultLines(output) ==
    <<ResultCols,
      <<output.name, output.tax_id, output.category, output.size, output.source,
        output.method>> >>

\* sizemeup as a function of its query, the sizes file and the local
\* files: how it ends (lpc, raised), what it logs, final_output and the
\* result file.
Lookup(q, sz, fs) ==
    LET end(l, r, m, o, f) ==
          [lpc |-> l, raised |-> r, log |-> m, final_output |-> o, result_file |-> f]
    IN
    IF ~sz.exists
    THEN end("exit", "", "Could not find the sizes file", UnknownOutput, <<>>)
    ELSE
      LET parsed == parse_sizes_file(sz.lines)
      IN
      IF parsed.raised # ""
      THEN end("raised", parsed.raised, "", UnknownOutput, <<>>)
      ELSE IF ~IsDigit(q) /\ Has(fs, q) /\ Len(SecondLine(Get(fs, q))) < 2
      THEN end("raised", "IndexError", "", UnknownOutput, <<>>)
      ELSE
        LET lc == LcSpecies(q, parsed.taxid2name, fs)
        IN
        IF lc # <<>> /\ Has(parsed.genome_sizes, lc[1])
        THEN LET row == Get(parsed.genome_sizes, lc[1])
             IN  IF \E c \in {3, 4, 5, 6} : ~Has(row, SizesHeader[c])
                 THEN end("raised", "KeyError", "Found", UnknownOutput, <<>>)
                 ELSE LET output == [name |-> Get(row, SizesHeader[1]),
                                     tax_id |-> Get(row, SizesHeader[2]),
                                     category |-> Get(row, SizesHeader[3]),
                                     size |-> Get(row, SizesHeader[4]),
                                     source |-> Get(row, SizesHeader[5]),
                                     method |-> Get(row, SizesHeader[6])]
                      IN  end("done", "", "Found", output, ResultLines(output))
        ELSE end("done", "",
                 IF IsDigit(q) THEN "Could not find the taxid" ELSE "Could not find",
                 UnknownOutput, ResultLines(UnknownOutput))

\* -------------------------------------------------------------- state ----
VARIABLES
    pc,                 \* sizemeup-build: the step that runs next
    error,              \* the exception that ended the run, "" if none
    chunk_size,         \* --chunk-size
    min_genomes,        \* --min-genomes
    user_genome_sizes,  \* dict taxid -> row of the --user-sizes file
    ncbi_file,          \* species_genome_size.txt.gz in outdir: [gzip, lines], gzip
                        \* FALSE for a body gzip.open cannot read
    ncbi_status,        \* the NCBI table download: "none", "success" (a 2xx
                        \* response, or a cached file), "failure" (not 2xx)
    genome_sizes,       \* dict taxid -> row, the table being built
    chunks,             \* taxid_chunks / species_chunks of the running resolve
    requests,           \* the payloads posted by the running resolve, in order
    data,               \* the taxonomy_nodes of the last response
    tax_names,          \* taxid2name's result
    species_list,       \* dict name -> taxid of the NCBI/user rows
    species,            \* dict species name -> samples (assembly-stats manifest)
    assembly_stats,     \* dict sample -> assembly-stats row
    atb_species,        \* dict name -> samples, the candidates
    species_taxids,     \* species2taxid's result
    sizes_file,         \* the lines of outdir/sizemeup-sizes.txt, <<>> if absent
    lpc,                \* sizemeup: "start", "done", "exit", "raised"; "idle" in a build
    sizes,              \* sizemeup: the --sizes file, [exists, lines]
    query,              \* sizemeup: --query
    files,              \* sizemeup: dict path -> lines of the local files
    final_output,       \* sizemeup: final_output
    log,                \* sizemeup: the message logged about the query, "" if none
    raised,             \* sizemeup: the exception that ended the run, "" if none
    result_file         \* sizemeup: lines of {prefix}-sizemeup.txt, <<>> if absent

buildVars ==
    <<pc, error, chunk_size, min_genomes, user_genome_sizes, ncbi_file,
      ncbi_status,
      genome_sizes, chunks, requests, data, tax_names, species_list, species,
      assembly_stats, atb_species, species_taxids, sizes_file>>

lookupVars ==
    <<lpc, sizes, query, files, final_output, log, raised, result_file>>

vars ==
    <<buildVars, lookupVars>>

\* No lookup runs.
LookupIdle ==
    /\ lpc = "idle"
    /\ sizes = [exists |-> FALSE, lines |-> <<>>]
    /\ query = <<>>
    /\ files = <<>>
    /\ final_output = UnknownOutput
    /\ log = ""
    /\ raised = ""
    /\ result_file = <<>>

\* sizemeup-build is entered with its options; nothing is read yet.
Init ==
    /\ pc = "read_user"
    /\ error = ""
    /\ chunk_size \in 1..MaxChunkSize
    /\ min_genomes \in MinGenomesChoices
    /\ user_genome_sizes = <<>>
    /\ ncbi_file = [gzip |-> FALSE, lines |-> <<>>]
    /\ ncbi_status = "none"
    /\ genome_sizes = <<>>
    /\ chunks = <<>>
    /\ requests = <<>>
    /\ data = <<>>
    /\ tax_names = <<>>
    /\ species_list = <<>>
    /\ species = <<>>
    /\ assembly_stats = <<>>
    /\ atb_species = <<>>
    /\ species_taxids = <<>>
    /\ sizes_file = <<>>
    /\ LookupIdle

\* An exception ends the run.
Raise(e) ==
    /\ pc' = "failed"
    /\ error' = e

\* Without --user-sizes nothing is read; with it the file is read line by
\* line, and a path that cannot be opened raises.
ReadUserSizes ==
    /\ pc = "read_user"
    /\ \/ /\ \E file \in UserFiles : user_genome_sizes' = ReadUserLines(file, <<>>)
          /\ pc' = "download_ncbi"
          /\ error' = error
       \/ /\ Raise("FileNotFoundError")
          /\ user_genome_sizes' = user_genome_sizes
    /\ UNCHANGED <<chunk_size, min_genomes, ncbi_file, ncbi_status, genome_sizes,
                   chunks,
                   requests, data, tax_names, species_list, species,
                   assembly_stats, atb_species, species_taxids, sizes_file,
                   lookupVars>>

\* download_genome_sizes: a file already in outdir is used as it is (no
\* --force); otherwise the body of the GET is written whatever the status
\* of the response, be it the table, an error page, or nothing at all (an
\* empty file, which gzip.open reads as zero lines).  A failed connection
\* raises.
DownloadGenomeSizes ==
    /\ pc = "download_ncbi"
    /\ \/ /\ \E lines \in NcbiFiles : ncbi_file' = [gzip |-> TRUE, lines |-> lines]
          /\ ncbi_status' = "success"
          /\ pc' = "parse_ncbi"
          /\ error' = error
       \/ /\ ncbi_file' = [gzip |-> FALSE, lines |-> <<>>]
          /\ ncbi_status' \in {"success", "failure"}
          /\ pc' = "parse_ncbi"
          /\ error' = error
       \/ /\ ncbi_file' = [gzip |-> TRUE, lines |-> <<>>]
          /\ ncbi_status' = "failure"
          /\ pc' = "parse_ncbi"
          /\ error' = error
       \/ /\ Raise("ConnectionError")
          /\ UNCHANGED <<ncbi_file, ncbi_status>>
    /\ UNCHANGED <<chunk_size, min_genomes, user_genome_sizes, genome_sizes,
                   chunks, requests, data, tax_names, species_list, species,
                   assembly_stats, atb_species, species_taxids, sizes_file,
                   lookupVars>>

\* get_genome_sizes up to the call of taxid2name, and taxid2name up to its
\* first request: the table is read and its keys are batched.
ParseGenomeSizes ==
    /\ pc = "parse_ncbi"
    /\ IF ncbi_file.gzip
       THEN /\ genome_sizes' = ReadNcbiLines(ncbi_file.lines, <<>>)
            /\ chunks' = Batched(Keys(genome_sizes'), chunk_size)
            /\ pc' = "taxid2name"
            /\ error' = error
       ELSE /\ Raise("BadGzipFile")
            /\ UNCHANGED <<genome_sizes, chunks>>
    /\ requests' = <<>>
    /\ data' = <<>>
    /\ tax_names' = <<>>
    /\ UNCHANGED <<chunk_size, min_genomes, user_genome_sizes, ncbi_file,
                   ncbi_status,
                   species_list, species, assembly_stats, atb_species,
                   species_taxids, sizes_file, lookupVars>>

\* One iteration of taxid2name's loop: the next chunk is posted; a status
\* that is not successful raises; otherwise the rows of the response are
\* stored, and a row without a taxonomy field raises KeyError.
Taxid2NameRequest ==
    /\ pc = "taxid2name"
    /\ Len(requests) < Len(chunks)
    /\ LET chunk == chunks[Len(requests) + 1]
       IN  /\ requests' = Append(requests, chunk)
           /\ \/ /\ Raise("HTTPError")
                 /\ UNCHANGED <<data, tax_names>>
              \/ \E rows \in Responses(chunk) :
                   /\ data' = rows
                   /\ tax_names' = NameRows(rows, tax_names)
                   /\ IF \E i \in 1..Len(rows) : "taxonomy" \notin DOMAIN rows[i]
                      THEN Raise("KeyError: 'taxonomy'")
                      ELSE UNCHANGED <<pc, error>>
    /\ UNCHANGED <<chunk_size, min_genomes, user_genome_sizes, ncbi_file,
                   ncbi_status,
                   genome_sizes, chunks, species_list, species, assembly_stats,
                   atb_species, species_taxids, sizes_file, lookupVars>>

\* taxid2name returns and get_genome_sizes copies the names and categories
\* into the rows.
Taxid2NameReturn ==
    /\ pc = "taxid2name"
    /\ Len(requests) = Len(chunks)
    /\ genome_sizes' = MergeNames(tax_names, genome_sizes)
    /\ pc' = "merge_user"
    /\ UNCHANGED <<error, chunk_size, min_genomes, user_genome_sizes, ncbi_file,
                   ncbi_status,
                   chunks, requests, data, tax_names, species_list, species,
                   assembly_stats, atb_species, species_taxids, sizes_file,
                   lookupVars>>

\* The user rows are added to genome_sizes.
MergeUserSizes ==
    /\ pc = "merge_user"
    /\ genome_sizes' = MergeUser(user_genome_sizes, genome_sizes)
    /\ pc' = "species_list"
    /\ UNCHANGED <<error, chunk_size, min_genomes, user_genome_sizes, ncbi_file,
                   ncbi_status,
                   chunks, requests, data, tax_names, species_list, species,
                   assembly_stats, atb_species, species_taxids, sizes_file,
                   lookupVars>>

\* species_list is built; genome["name"] raises KeyError for a row that
\* got no name.
BuildSpeciesList ==
    /\ pc = "species_list"
    /\ IF \A i \in 1..Len(genome_sizes) : "name" \in DOMAIN genome_sizes[i][2]
       THEN /\ species_list' = SpeciesList(genome_sizes, <<>>)
            /\ pc' = "download_atb"
            /\ error' = error
       ELSE /\ Raise("KeyError: 'name'")
            /\ species_list' = species_list
    /\ UNCHANGED <<chunk_size, min_genomes, user_genome_sizes, ncbi_file,
                   ncbi_status,
                   genome_sizes, chunks, requests, data, tax_names, species,
                   assembly_stats, atb_species, species_taxids, sizes_file,
                   lookupVars>>

\* The two assembly-stats files are fetched; a failed download raises.
DownloadAtbFiles ==
    /\ pc = "download_atb"
    /\ \/ /\ pc' = "parse_atb"
          /\ error' = error
       \/ Raise("DownloadError")
    /\ UNCHANGED <<chunk_size, min_genomes, user_genome_sizes, ncbi_file,
                   ncbi_status,
                   genome_sizes, chunks, requests, data, tax_names, species_list,
                   species, assembly_stats, atb_species, species_taxids,
                   sizes_file, lookupVars>>

\* The manifest and the assembly statistics are parsed.
ParseAtbFiles ==
    /\ pc = "parse_atb"
    /\ \E manifest \in [Samples -> AtbNames] :
         species' = GroupSamples(manifest, 1, <<>>)
    /\ assembly_stats' = AssemblyStats(MaxSamples)
    /\ pc' = "filter_atb"
    /\ UNCHANGED <<error, chunk_size, min_genomes, user_genome_sizes, ncbi_file,
                   ncbi_status,
                   genome_sizes, chunks, requests, data, tax_names, species_list,
                   atb_species, species_taxids, sizes_file, lookupVars>>

\* The candidates are selected, and species2taxid batches their names.
FilterAtbSpecies ==
    /\ pc = "filter_atb"
    /\ atb_species' = FilterSpecies(species, species_list, min_genomes, <<>>)
    /\ chunks' = Batched(Keys(atb_species'), chunk_size)
    /\ requests' = <<>>
    /\ data' = <<>>
    /\ species_taxids' = <<>>
    /\ pc' = "species2taxid"
    /\ UNCHANGED <<error, chunk_size, min_genomes, user_genome_sizes, ncbi_file,
                   ncbi_status,
                   genome_sizes, tax_names, species_list, species, assembly_stats,
                   sizes_file, lookupVars>>

\* One iteration of species2taxid's loop.
Species2TaxidRequest ==
    /\ pc = "species2taxid"
    /\ Len(requests) < Len(chunks)
    /\ LET chunk == chunks[Len(requests) + 1]
       IN  /\ requests' = Append(requests, chunk)
           /\ \/ /\ Raise("HTTPError")
                 /\ UNCHANGED <<data, species_taxids>>
              \/ \E rows \in Responses(chunk) :
                   /\ data' = rows
                   /\ species_taxids' = TaxidRows(rows, species_taxids)
                   /\ UNCHANGED <<pc, error>>
    /\ UNCHANGED <<chunk_size, min_genomes, user_genome_sizes, ncbi_file,
                   ncbi_status,
                   genome_sizes, chunks, tax_names, species_list, species,
                   assembly_stats, atb_species, sizes_file, lookupVars>>

\* species2taxid returns and the resolved candidates are added.
AddAtbSizes ==
    /\ pc = "species2taxid"
    /\ Len(requests) = Len(chunks)
    /\ genome_sizes' = AddAtb(atb_species, species_taxids, assembly_stats, genome_sizes)
    /\ pc' = "write"
    /\ UNCHANGED <<error, chunk_size, min_genomes, user_genome_sizes, ncbi_file,
                   ncbi_status,
                   chunks, requests, data, tax_names, species_list, species,
                   assembly_stats, atb_species, species_taxids, sizes_file,
                   lookupVars>>

\* sizemeup-sizes.txt is written: version line, header, one line per row.
WriteSizes ==
    /\ pc = "write"
    /\ sizes_file' = <<VersionLine, SizesHeader>>
                       \o [i \in 1..Len(genome_sizes) |->
                             SizesLine(genome_sizes[i][1], genome_sizes[i][2])]
    /\ pc' = "done"
    /\ UNCHANGED <<error, chunk_size, min_genomes, user_genome_sizes, ncbi_file,
                   ncbi_status,
                   genome_sizes, chunks, requests, data, tax_names, species_list,
                   species, assembly_stats, atb_species, species_taxids,
                   lookupVars>>

Next ==
    \/ ReadUserSizes
    \/ DownloadGenomeSizes
    \/ ParseGenomeSizes
    \/ Taxid2NameRequest
    \/ Taxid2NameReturn
    \/ MergeUserSizes
    \/ BuildSpeciesList
    \/ DownloadAtbFiles
    \/ ParseAtbFiles
    \/ FilterAtbSpecies
    \/ Species2TaxidRequest
    \/ AddAtbSizes
    \/ WriteSizes

Spec ==
    Init /\ [][Next]_vars

\* ------------------------------------------------ properties: build ----
\* The tax_ids of the NCBI table as downloaded.
NcbiTaxids ==
    {ncbi_file.lines[j][1] : j \in 1..Len(ncbi_file.lines)}

\* The tax_ids of the --user-sizes file.
UserTaxids ==
    Range(Keys(user_genome_sizes))

\* genome_sizes is the merged NCBI/user table: the merge has run and the
\* assembly-stats rows are not added yet.
Merged ==
    pc \in {"species_list", "download_atb", "parse_atb", "filter_atb", "species2taxid"}

\* C1: after the merge, every tax_id of a user row has exactly one row in
\* the table; when the NCBI table has that tax_id the row is the NCBI one
\* (source ncbi, NCBI size), and otherwise it is the user row.
C1_NcbiWinsMerge ==
    Merged =>
      \A u \in 1..Len(user_genome_sizes) :
        LET taxid == user_genome_sizes[u][1]
            row == user_genome_sizes[u][2]
        IN  /\ Cardinality({i \in 1..Len(genome_sizes) : genome_sizes[i][1] = taxid}) = 1
            /\ \A i \in 1..Len(genome_sizes) :
                 genome_sizes[i][1] = taxid =>
                   IF taxid \in NcbiTaxids
                   THEN /\ genome_sizes[i][2].source = "ncbi"
                        /\ \E j \in 1..Len(ncbi_file.lines) :
                             /\ ncbi_file.lines[j][1] = taxid
                             /\ genome_sizes[i][2].expected_ungapped_length
                                  = ncbi_file.lines[j][4]
                   ELSE genome_sizes[i][2] = row

\* A merge in which a user row and an NCBI row share a tax_id and differ in size.
C1_Witness ==
    /\ Merged
    /\ \E u \in 1..Len(user_genome_sizes) : \E j \in 1..Len(ncbi_file.lines) :
         /\ ncbi_file.lines[j][1] = user_genome_sizes[u][1]
         /\ ncbi_file.lines[j][4] # user_genome_sizes[u][2].expected_ungapped_length

\* The data lines of the persisted table.
SizesRows ==
    SubSeq(sizes_file, 3, Len(sizes_file))

\* C2: an assembly-stats species whose name equals the name of a row of the
\* merged NCBI/user table has no atb row in the final table, whatever its
\* number of samples.
C2_ExcludedByName ==
    pc \in {"write", "done"} =>
      \A s \in 1..Len(species) :
        Has(species_list, species[s][1]) =>
          /\ \A i \in 1..Len(genome_sizes) :
               ~(/\ genome_sizes[i][2].source = "atb"
                 /\ genome_sizes[i][2].name = species[s][1])
          /\ \A i \in 1..Len(SizesRows) :
               ~(SizesRows[i][5] = <<"atb">> /\ SizesRows[i][1] = species[s][1])

\* A finished build whose manifest has a species named like an NCBI/user
\* row, with enough samples and a name that passes the strain filter.
C2_Witness ==
    /\ pc = "done"
    /\ \E s \in 1..Len(species) :
         /\ Has(species_list, species[s][1])
         /\ Len(species[s][2]) >= min_genomes
         /\ ~(HasUnderscore(species[s][1]) /\ AnyDigit(species[s][1]))

\* C3: a tax_id that has an NCBI or user row after the merge still has a
\* row of source ncbi or user in the table that is persisted.
C3_PrecedenceKept ==
    pc \in {"write", "done"} =>
      \A i \in 1..Len(genome_sizes) :
        genome_sizes[i][1] \in NcbiTaxids \cup UserTaxids =>
          genome_sizes[i][2].source \in {"ncbi", "user"}

\* The seven top-level categories as the specification lists them.
KnownCategories ==
    << <<2, Cat_bacteria>>, <<2157, Cat_archaea>>, <<2759, Cat_eukaryota>>,
       <<4751, Cat_fungi>>, <<10239, Cat_virus>>, <<12908, Cat_unclassified>>,
       <<28384, Cat_other>> >>

\* The category the claim gives a lineage: the known categories found in
\* it, comma-joined, and "unknown" when there is none.
ClaimedCategory(lineage) ==
    LET InLineage(c) == c[1] \in Range(lineage)
        found == SelectSeq(KnownCategories, InLineage)
    IN  IF found = <<>> THEN Cat_unknown
        ELSE Join([i \in 1..Len(found) |-> found[i][2]], <<",">>)

\* C6: every entry of taxid2name's result has the claimed category of its
\* node's lineage ("bacteria,archaea" for 2 and 2157, "unknown" for none).
C6_CategoryOfLineage ==
    \A e \in 1..Len(tax_names) :
      \A t \in Taxonomy :
        Str(t.tax_id) = tax_names[e][1] =>
          tax_names[e][2].category = ClaimedCategory(t.lineage)

\* The candidates are selected: the filter has run.
Filtered ==
    pc \in {"species2taxid", "write", "done"}

\* C7: a species name outside the exclusion set is a candidate exactly when
\* it does not have both an underscore and a digit and has at least
\* min_genomes samples; "Escherichia coli" and "strain_X" pass the name
\* filter, "E_coli_123" does not.
C7_CandidateIff ==
    /\ Filtered =>
         \A s \in 1..Len(species) :
           LET name == species[s][1]
               samples == species[s][2]
           IN  ~Has(species_list, name) =>
                 /\ Has(atb_species, name) <=>
                      /\ ~((\E i \in 1..Len(name) : name[i] = "_")
                           /\ (\E i \in 1..Len(name) : name[i] \in Digits))
                      /\ Len(samples) >= min_genomes
                 /\ Has(atb_species, name) => Get(atb_species, name) = samples
    /\ PassesNameFilter(EscherichiaColi)
    /\ PassesNameFilter(StrainX)
    /\ ~PassesNameFilter(EColi123)

\* A species with exactly min_genomes samples is a candidate, one with
\* min_genomes - 1 samples and a passing name is not, and "E_coli_123" with
\* enough samples is not.
C7_Witness ==
    /\ Filtered
    /\ \E s \in 1..Len(species) :
         /\ ~Has(species_list, species[s][1])
         /\ Len(species[s][2]) = min_genomes
         /\ Has(atb_species, species[s][1])
    /\ \/ \E s \in 1..Len(species) :
            /\ ~Has(species_list, species[s][1])
            /\ Len(species[s][2]) = min_genomes - 1
            /\ species[s][1] # EColi123
            /\ ~Has(atb_species, species[s][1])
       \/ \E s \in 1..Len(species) :
            /\ species[s][1] = EColi123
            /\ Len(species[s][2]) >= min_genomes
            /\ ~Has(atb_species, EColi123)

\* The total_length values of a list of samples.
LengthsOf(samples) ==
    [i \in 1..Len(samples) |->
       AssemblyLengths[((samples[i] - 1) % Len(AssemblyLengths)) + 1]]

\* C8: the row of every resolved candidate has the floor of the mean of the
\* total_length of all the species' samples as size, category bacteria,
\* source atb, and the number of samples in its method text; the persisted
\* line carries the same size.
C8_AtbRow ==
    pc \in {"write", "done"} =>
      \A c \in 1..Len(atb_species) :
        LET name == atb_species[c][1]
            samples == Get(species, name)
            N == Len(samples)
            total == SumSeq(LengthsOf(samples))
        IN  Has(species_taxids, name) =>
              LET taxid == Get(species_taxids, name)
                  row == Get(genome_sizes, taxid)
              IN  /\ Has(genome_sizes, taxid)
                  /\ row.name = name
                  /\ row.source = "atb"
                  /\ row.category = Cat_bacteria
                  /\ row.expected_ungapped_length * N <= total
                  /\ total < (row.expected_ungapped_length + 1) * N
                  /\ row.method_determined[2] = N
                  /\ pc = "done" =>
                       \E i \in 1..Len(SizesRows) :
                         /\ SizesRows[i][2] = taxid
                         /\ SizesRows[i][5] = <<"atb">>
                         /\ ToInt(SizesRows[i][4]) * N <= total
                         /\ total < (ToInt(SizesRows[i][4]) + 1) * N

\* A finished build with a resolved candidate whose mean is not an integer.
C8_Witness ==
    /\ pc = "done"
    /\ \E c \in 1..Len(atb_species) :
         /\ Has(species_taxids, atb_species[c][1])
         /\ Len(atb_species[c][2]) >= 2
         /\ SumSeq(LengthsOf(atb_species[c][2])) % Len(atb_species[c][2]) # 0

RECURSIVE Flatten(_)
Flatten(ss) ==
    IF ss = <<>> THEN <<>> ELSE Head(ss) \o Flatten(Tail(ss))

\* ceil(n / c)
CeilDiv(n, c) ==
    (n + c - 1) \div c

\* The requests posted so far carry the identifiers of input in input
\* order, each once, every request but the last exactly size of them and
\* the last between 1 and size; a completed resolve has posted
\* ceil(n / size) requests that carry all of input.
Chunked(input, posted, size, complete) ==
    /\ Len(Flatten(posted)) <= Len(input)
    /\ Flatten(posted) = SubSeq(input, 1, Len(Flatten(posted)))
    /\ \A i \in 1..Len(posted) :
         /\ Len(posted[i]) \in 1..size
         /\ i < Len(posted) => Len(posted[i]) = size
    /\ complete =>
         /\ Len(posted) = CeilDiv(Len(input), size)
         /\ Flatten(posted) = input

\* C9: taxid2name and species2taxid post the chunks of their input list in
\* input order, ceil(n / chunk_size) of them when they complete; 1050
\* identifiers with chunk size 500 give requests of 500, 500 and 50.
C9_Chunking ==
    /\ pc = "taxid2name" => Chunked(Keys(genome_sizes), requests, chunk_size, FALSE)
    /\ pc = "merge_user" => Chunked(Keys(genome_sizes), requests, chunk_size, TRUE)
    /\ pc = "species2taxid" => Chunked(Keys(atb_species), requests, chunk_size, FALSE)
    /\ pc = "write" => Chunked(Keys(atb_species), requests, chunk_size, TRUE)
    /\ pc = "read_user" =>
         LET big == Batched([i \in 1..1050 |-> i], 500)
         IN  /\ [i \in 1..Len(big) |-> Len(big[i])] = <<500, 500, 50>>
             /\ Flatten(big) = [i \in 1..1050 |-> i]

\* species2taxid has completed after a full request followed by a shorter one.
C9_Witness ==
    /\ pc = "write"
    /\ Len(requests) >= 2
    /\ Len(requests[Len(requests)]) < chunk_size

\* C10: a row without a taxonomy field in a response does not raise: the
\* resolve goes on, and its result holds every resolved row of the response.
C10_MissingTaxonomySkipped ==
    (\E i \in 1..Len(data) : "taxonomy" \notin DOMAIN data[i]) =>
      /\ error # "KeyError: 'taxonomy'"
      /\ \A i \in 1..Len(data) :
           "taxonomy" \in DOMAIN data[i] =>
             \/ Has(tax_names, Str(data[i].taxonomy.tax_id))
             \/ Has(species_taxids, data[i].taxonomy.organism_name)

\* ------------------------------------------------------------ lookup ----
\* No build runs.
BuildIdle ==
    /\ pc = "idle"
    /\ error = ""
    /\ chunk_size = 1
    /\ min_genomes = 1
    /\ user_genome_sizes = <<>>
    /\ ncbi_file = [gzip |-> FALSE, lines |-> <<>>]
    /\ ncbi_status = "none"
    /\ genome_sizes = <<>>
    /\ chunks = <<>>
    /\ requests = <<>>
    /\ data = <<>>
    /\ tax_names = <<>>
    /\ species_list = <<>>
    /\ species = <<>>
    /\ assembly_stats = <<>>
    /\ atb_species = <<>>
    /\ species_taxids = <<>>
    /\ sizes_file = <<>>

\* sizemeup is entered with --query and --sizes; the sizes file exists or not.
LookupInit ==
    /\ BuildIdle
    /\ lpc = "start"
    /\ sizes \in {[exists |-> FALSE, lines |-> <<>>]}
                   \cup {[exists |-> TRUE, lines |-> l] : l \in SizesFiles}
    /\ query \in Queries
    /\ files \in FileSystems
    /\ final_output = UnknownOutput
    /\ log = ""
    /\ raised = ""
    /\ result_file = <<>>

\* One run of sizemeup.
Sizemeup ==
    /\ lpc = "start"
    /\ LET r == Lookup(query, sizes, files)
       IN  /\ lpc' = r.lpc
           /\ raised' = r.raised
           /\ log' = r.log
           /\ final_output' = r.final_output
           /\ result_file' = r.result_file
    /\ UNCHANGED <<sizes, query, files, buildVars>>

LookupNext ==
    Sizemeup

LookupSpec ==
    LookupInit /\ [][LookupNext]_vars

\* ----------------------------------------------- properties: lookup ----
\* The data lines of the sizes file.
DataLines ==
    SelectSeq(sizes.lines,
              LAMBDA l : ~StartsWith(l[1], <<"#">>) /\ ~StartsWith(l[1], SizesHeader[1]))

\* C4: a lookup by a numeric query that is in the tax_id index ends like the
\* lookup by the lowercased name the index maps it to: same outcome, same
\* final_output (name, tax_id, category, size, source, method), same result
\* file; on a six-column table both are hits.
C4_TaxidLikeName ==
    (lpc # "start" /\ sizes.exists /\ IsDigit(query)
       /\ Has(parse_sizes_file(sizes.lines).taxid2name, query)) =>
      LET name == Get(parse_sizes_file(sizes.lines).taxid2name, query)
          byName == Lookup(Lower(name), sizes, files)
      IN  /\ byName.lpc = lpc
          /\ byName.raised = raised
          /\ byName.log = log
          /\ byName.final_output = final_output
          /\ byName.result_file = result_file
          /\ log = "Found"
          /\ sizes.lines[2] = SizesHeader =>
               /\ lpc = "done"
               /\ \E i \in 1..Len(DataLines) :
                    /\ Lower(DataLines[i][1]) = Lower(name)
                    /\ final_output = [name |-> DataLines[i][1], tax_id |-> DataLines[i][2],
                                       category |-> DataLines[i][3], size |-> DataLines[i][4],
                                       source |-> DataLines[i][5], method |-> DataLines[i][6]]

\* A finished lookup by a tax_id whose name in the table has an upper-case
\* letter, on a six-column table.
C4_Witness ==
    /\ lpc = "done"
    /\ IsDigit(query)
    /\ log = "Found"
    /\ final_output.tax_id = query
    /\ Lower(final_output.name) # final_output.name

\* The effective query of a lookup has no match in the sizes file: a
\* numeric query that is no tax_id of it, or a name (given, or read from a
\* well-formed classification file) that is no name of it once lowercased.
NoMatch ==
    IF IsDigit(query)
    THEN \A i \in 1..Len(DataLines) : DataLines[i][2] # query
    ELSE /\ Has(files, query) => Len(SecondLine(Get(files, query))) >= 2
         /\ LET name == IF Has(files, query) THEN SecondLine(Get(files, query))[2]
                        ELSE query
            IN  \A i \in 1..Len(DataLines) : Lower(DataLines[i][1]) # Lower(name)

\* C5: with an existing sizes file and no match the lookup ends normally
\* with the not-found result and writes the header and one row; the
\* process exits exactly when the sizes file is missing, and then no
\* result file is written.
C5_MissNotFatal ==
    lpc # "start" =>
      /\ (sizes.exists /\ NoMatch) =>
           /\ lpc = "done"
           /\ raised = ""
           /\ log \in {"Could not find the taxid", "Could not find"}
           /\ final_output = UnknownOutput
           /\ Len(result_file) = 2
           /\ result_file[1] = SizesHeader
           /\ result_file[2] = <<UnknownOutput.name, UnknownOutput.tax_id,
                                 UnknownOutput.category, UnknownOutput.size,
                                 UnknownOutput.source, UnknownOutput.method>>
      /\ lpc = "exit" <=> ~sizes.exists
      /\ ~sizes.exists => result_file = <<>>

\* A finished lookup that missed: a tax_id absent from a non-empty table.
C5_Witness ==
    /\ lpc = "done"
    /\ sizes.exists
    /\ Len(DataLines) > 0
    /\ IsDigit(query)
    /\ NoMatch
    /\ Len(result_file) = 2

\* ---------------------------------------------- properties: build (2) ----
\* C11: sizemeup-sizes.txt exists only once the build is done, and a build
\* that is done has seen no network failure: the NCBI table download was
\* answered successfully and no step raised; a failed build leaves no table.
C11_NoTableAfterFailure ==
    /\ sizes_file # <<>> => (pc = "done" /\ error = "" /\ ncbi_status = "success")
    /\ pc = "done" => ncbi_status = "success"
    /\ pc = "failed" => sizes_file = <<>>

\* ---------------------------------------------- properties: lookup (2) ----
\* The value of column col in a data line of the sizes file, by the
\* position of col in the header line.
Field(line, col) ==
    line[CHOOSE c \in 1..Len(sizes.lines[2]) : sizes.lines[2][c] = col]

\* C12: on a five-column table as on a six-column one, a lookup by a name
\* that is in the table once lowercased ends as a hit with the name,
\* tax_id, size, source and method of a row of that name.
C12_BothFormatsHit ==
    (lpc # "start" /\ sizes.exists /\ ~IsDigit(query) /\ ~Has(files, query)
       /\ \E i \in 1..Len(DataLines) : Lower(DataLines[i][1]) = Lower(query)) =>
      /\ lpc = "done"
      /\ raised = ""
      /\ \E i \in 1..Len(DataLines) :
           /\ Lower(DataLines[i][1]) = Lower(query)
           /\ final_output.name = Field(DataLines[i], SizesHeader[1])
           /\ final_output.tax_id = Field(DataLines[i], SizesHeader[2])
           /\ final_output.size = Field(DataLines[i], SizesHeader[4])
           /\ final_output.source = Field(DataLines[i], SizesHeader[5])
           /\ final_output.method = Field(DataLines[i], SizesHeader[6])

\* ---------------------------------------------- properties: build (3) ----
\* Some NCBI row got no name from a name resolution that returned.
UnresolvedName ==
    \E i \in 1..Len(genome_sizes) :
      /\ genome_sizes[i][2].source = "ncbi"
      /\ "name" \notin DOMAIN genome_sizes[i][2]

\* C13: an NCBI tax_id left without a name by a successful resolution does
\* not abort the build: no step raises for the missing name, and every row
\* that reaches the exclusion-set step or the persisted table has a name.
C13_UnresolvedNotFatal ==
    /\ error # "KeyError: 'name'"
    /\ pc \in {"download_atb", "parse_atb", "filter_atb", "species2taxid", "write", "done"} =>
         ~UnresolvedName
    /\ \A i \in 1..Len(SizesRows) : SizesRows[i][1] # <<>>

\* ---------------------------------------------- properties: lookup (3) ----
\* The tax_ids of the sizes file are unique.
UniqueTaxids ==
    \A i, j \in 1..Len(DataLines) : DataLines[i][2] = DataLines[j][2] => i = j

\* C14: on a table with unique tax_ids, the record a lookup returns for a
\* numeric query that is a tax_id of the table has that tax_id.
C14_TaxidReturned ==
    (lpc = "done" /\ sizes.exists /\ UniqueTaxids /\ IsDigit(query)
       /\ \E i \in 1..Len(DataLines) : DataLines[i][2] = query) =>
      final_output.tax_id = query

====
